---- MODULE Spec2Model ----
(***************************************************************************)
(* The cross-thread task bridge of the Fusion 360 MCP add-in (MCP/MCP.py): *)
(* the HTTP server thread (Handler.do_POST / queue_task_and_wait), the     *)
(* ticker thread (TaskThread.run), the host main thread (TaskEventHandler  *)
(* notify / process_task, stop) and the shared module globals task_queue,  *)
(* response_dict, response_lock and task_id_counter.                       *)
(*                                                                         *)
(* Time is counted in units of 25 ms, so that the polling sleep of         *)
(* get_task_response (0.05 s) is PollInterval = 2 units.  Time passes only *)
(* while the server thread sleeps; every other step is instantaneous.      *)
(***************************************************************************)
EXTENDS Integers, Sequences, FiniteSets, TLC

\* ------------------------------------------------------------------ bounds
MaxRequests == 2        \* requests the server thread accepts in one run
DefaultTimeout == 3     \* queue_task_and_wait timeout (10.0 s), scaled down
MaxEvents == 1          \* custom events fired and not yet delivered
MaxCallers == 2         \* threads of the generate_task_id harness
MaxCalls == 4           \* calls the harness threads make in total
MaxRejects == 1         \* requests answered without a task in one run
LongTimeout == 5        \* the timeout of /threaded (30.0 s), scaled down
MaxSends == 2           \* calls of send_request in one run
MaxServed == 8          \* connections made to the server in one run

\* --------------------------------------------------------------- constants
PollInterval == 2       \* time.sleep(0.05) in units of 25 ms

\* ------------------------------------------------------------ python values
\* Elements of a task tuple carry their Python type, so that
\* isinstance(task[-1], int) can be evaluated.
PyStr(s) == [ty |-> "str", s |-> s, n |-> 0]
PyInt(n) == [ty |-> "int", s |-> "", n |-> n]
PyFloat(n) == [ty |-> "float", s |-> "", n |-> n]
PyNone == [ty |-> "none", s |-> "", n |-> 0]
PyBool(b) == [ty |-> "bool", s |-> "", n |-> IF b THEN 1 ELSE 0]

\* isinstance(x, int): bool is a subclass of int
IsInstanceInt(x) == x.ty \in {"int", "bool"}

\* task_id value standing for Python's None (real ids start at 1)
NoId == 0

\* entity_data payloads; NoData is Python's None
NoData == [kind |-> "none", token |-> 0]
FeatureData(k) == [kind |-> "feature", token |-> k]
BodyData(k) == [kind |-> "body", token |-> k]

\* ---------------------------------------------------------- dispatch table
\* the names tested by the if/elif chain of process_task
DispatchTable ==
    {"set_parameter", "draw_box", "draw_witzenmann", "export_stl",
     "fillet_edges", "export_step", "draw_cylinder", "shell_body", "undo",
     "draw_lines", "extrude_last_sketch", "revolve_profile", "arc",
     "draw_one_line", "holes", "circle", "extrude_thin", "select_body",
     "select_sketch", "spline", "sweep", "cut_extrude", "circular_pattern",
     "offsetplane", "loft", "ellipsis", "draw_sphere", "threaded",
     "delete_everything", "boolean_operation", "draw_2d_rectangle",
     "rectangular_pattern", "draw_text", "move_body", "move_body_by_token",
     "delete_body_by_token", "edit_extrude_distance",
     "get_body_info_by_token", "get_feature_info_by_token",
     "set_body_visibility"}

\* branches of process_task that assign the handler's return to entity_data
AssignsEntityData ==
    {"draw_box", "draw_cylinder", "extrude_last_sketch", "extrude_thin",
     "sweep", "loft", "draw_sphere", "draw_text", "move_body_by_token",
     "delete_body_by_token", "edit_extrude_distance",
     "get_body_info_by_token", "get_feature_info_by_token",
     "set_body_visibility"}

\* handlers whose body is not wrapped in try/except: a host fault escapes
UnguardedHandlers == {"draw_2d_rectangle"}


\* ------------------------------------------------------------------- state
VARIABLES
    task_queue,       \* queue.Queue(): sequence of task tuples, head first
    response_dict,    \* task id -> stored response
    response_lock,    \* "free" or the thread holding the lock
    task_id_counter,  \* global counter of generate_task_id
    stopFlag,         \* threading.Event set by stop()
    handlers,         \* TRUE while the TaskEventHandler is registered
    events,           \* custom events fired and not yet delivered
    httpd,            \* "serving", "shutdown" (requested) or "closed"
    bodies,           \* number of bodies in the design (tokens 1..bodies)
    tpc,              \* TaskThread.run: "wait", "fire" or "done"
    dpc,              \* per execution context: position in notify / stop
    cur,              \* per execution context: task being processed
    outcome,          \* per execution context: result about to be published
    fpc,              \* server thread: position in do_POST
    req,              \* server thread: task tuple without the id
    task_id,          \* server thread: local task_id
    timeout,          \* server thread: timeout of get_task_response
    elapsed,          \* server thread: time.time() - start_time
    response,         \* server thread: value returned by get_task_response
    gpc,              \* per harness caller: position in generate_task_id
    gtmp,             \* per harness caller: value loaded from the counter
    calls,            \* history: ids returned to the harness callers
    enqueued,         \* history: task ids in the order of task_queue.put
    dispatched,       \* history: task ids in the order of handler invocation
    drainCount,       \* history: tasks taken from the queue in the current drain
    raisedInDrain,    \* history: a handler raised in the current drain
    published,        \* history: calls of set_task_response made by notify
    returned,         \* history: responses returned by get_task_response
    reread,           \* history: "no", "running" or "done": the re-read of the harness
    params,           \* host: design.allParameters, name -> expression, user flag
    snapshot,         \* ModelParameterSnapshot
    intime,           \* history: ids published while their waiter's deadline
                      \* had not passed
    tickLog,          \* history: how the last notify call went, and the ids
                      \* queued when a refresh raised
    cpc,              \* send_request: "idle", "post" or "done"
    attempt,          \* send_request: loop variable of for attempt in range(..)
    outcomes,         \* history: how each requests.post of the call ended
    cresult,          \* send_request: "none", "returned" or "raised"
    ccalls            \* history: send_request calls made

sharedVars == <<task_queue, response_dict, response_lock, task_id_counter,
                stopFlag, handlers, events, httpd, bodies>>
hostVars == <<dpc, cur, outcome>>
serverVars == <<fpc, req, task_id, timeout, elapsed, response>>
genVars == <<gpc, gtmp, calls>>
histVars == <<enqueued, dispatched, drainCount, raisedInDrain, published,
              returned, reread>>
designVars == <<params, snapshot>>
logVars == <<intime, tickLog>>
clientVars == <<cpc, attempt, outcomes, cresult, ccalls>>
extVars == <<designVars, logVars, clientVars>>
vars == <<sharedVars, tpc, hostVars, serverVars, genVars, histVars, extVars>>

\* execution contexts that can run Python code of the add-in on the host side
Contexts == {"main", "ticker"}

\* app.fireCustomEvent posts the event to the host, which calls notify on its
\* main thread only
DeliveryContexts_direct == Contexts
DeliveryContexts == {"main"}

\* threads of the generate_task_id harness
Callers == 1..MaxCallers

\* ------------------------------------------------------- correlation store
\* the dict literal built by set_task_response
StoredResponse(success, message, error, entity_data) ==
    [success |-> success, message |-> message, error |-> error,
     completed |-> TRUE, entity_data |-> entity_data]

\* the dict literal returned by get_task_response after the loop
TimeoutResponse ==
    [success |-> FALSE, message |-> <<"Task timeout">>,
     error |-> "Task did not complete within timeout period"]

\* response_dict[task_id] = {...}
DictStore(d, k, v) == [x \in DOMAIN d \cup {k} |-> IF x = k THEN v ELSE d[x]]

\* task_id in response_dict and response_dict[task_id].get('completed')
ResponseReady(d, k) == k \in DOMAIN d /\ d[k].completed

\* response_dict.pop(task_id): the dictionary that is left
DictPop_keep(d, k) == d
DictPop_sweep(d, k) == [x \in {y \in DOMAIN d : y > k} |-> d[x]]
DictPop(d, k) == [x \in DOMAIN d \ {k} |-> d[x]]

\* with response_lock: the with statement is entered when no thread holds
\* the lock
LockAvailable_unlocked(l) == TRUE
LockAvailable(l) == l = "free"

\* ----------------------------------------------------------------- queue
\* task_queue.empty()
QueueEmpty_always(q) == TRUE
QueueEmpty(q) == q = <<>>

\* task_queue.get_nowait(): the task taken and the queue that is left
QueueGet_skip(q) ==
    [task |-> Head(q),
     rest |-> IF Len(q) > 1 THEN Tail(Tail(q)) ELSE Tail(q)]
QueueGet_drop(q) == [task |-> Head(q), rest |-> <<>>]
QueueGet_lifo(q) == [task |-> q[Len(q)], rest |-> SubSeq(q, 1, Len(q) - 1)]
QueueGet(q) == [task |-> Head(q), rest |-> Tail(q)]

\* the clearing loop of stop(): get_nowait until empty() holds
RECURSIVE StopClear(_)
StopClear(q) ==
    IF QueueEmpty(q) THEN q
    ELSE LET r == QueueGet(q).rest
         IN  IF QueueEmpty(r) THEN r ELSE StopClear(r)

\* ------------------------------------------------------------ process_task
\* task_id = task[-1] if len(task) > 0 and isinstance(task[-1], int) else None
TaskIdOf_str(task) ==
    IF Len(task) > 0 /\ task[Len(task)].ty = "str"
    THEN task[Len(task)].n ELSE NoId
TaskIdOf_next(task) ==
    IF Len(task) > 0 /\ IsInstanceInt(task[Len(task)])
    THEN task[Len(task)].n + 1 ELSE NoId
TaskIdOf_param(task) ==
    IF Len(task) > 2 /\ IsInstanceInt(task[Len(task) - 1])
    THEN task[Len(task) - 1].n
    ELSE IF Len(task) > 0 /\ IsInstanceInt(task[Len(task)])
         THEN task[Len(task)].n ELSE NoId
TaskIdOf(task) ==
    IF Len(task) > 0 /\ IsInstanceInt(task[Len(task)])
    THEN task[Len(task)].n ELSE NoId

\* task_name = task[0] if len(task) > 0 else 'unknown'
TaskNameOf(task) == IF Len(task) > 0 THEN task[1].s ELSE "unknown"

\* the id queue_task_and_wait appended to the tuple
AppendedId(task) == task[Len(task)].n

\* ids of the tasks in a queue
QueuedIds(q) == {AppendedId(q[k]) : k \in 1..Len(q)}

\* task_with_id = task_tuple + (task_id,)
TaskWithId_late(tuple, id) == tuple
TaskWithId(tuple, id) == Append(tuple, PyInt(id))

\* Whether the work of the handler fails in the host: the host rejects it
\* (hostOk = FALSE), or a token does not resolve to a live entity
\* (find_entity_by_token returns None).
WorkFails(task, hostOk, nbodies) ==
    \/ ~hostOk
    \/ /\ TaskNameOf(task) = "get_body_info_by_token"
       /\ task[2].n \notin 1..nbodies

\* The handler call of one branch of process_task: whether an exception
\* reaches process_task, the value assigned to entity_data, and the bodies
\* in the design afterwards.  Every handler but those of UnguardedHandlers
\* catches its own exceptions, shows a message box and returns None.
RunHandler(task, hostOk, nbodies) ==
    LET name == TaskNameOf(task)
        fails == WorkFails(task, hostOk, nbodies)
    IN  [raised |-> fails /\ name \in UnguardedHandlers,
         entity_data |->
            IF fails \/ name \notin AssignsEntityData THEN NoData
            ELSE IF name = "draw_box" THEN FeatureData(nbodies + 1)
            ELSE IF name = "get_body_info_by_token" THEN BodyData(task[2].n)
            ELSE NoData,
         bodies |-> IF name = "draw_box" /\ ~fails THEN nbodies + 1
                    ELSE nbodies]

\* set_task_response(task_id, True, f"{task_name} completed successfully",
\*                   entity_data=entity_data)
SuccessResponse(task, entity_data) ==
    StoredResponse(TRUE, <<TaskNameOf(task), " completed successfully">>,
                   "None", entity_data)

\* set_task_response(task_id, False, f"{task_name} failed: {str(e)}",
\*                   error_msg)
FailureResponse(task) ==
    StoredResponse(FALSE, <<TaskNameOf(task), " failed: ", "exception">>,
                   "traceback", NoData)

\* ----------------------------------------------------------------- requests
\* The task tuples built by do_POST for the modelled paths, with the default
\* field values: /Box, /draw_2d_rectangle, /get_body_info.
PostTuples ==
    { <<PyStr("draw_box"), PyFloat(5), PyFloat(5), PyFloat(5), PyFloat(0),
        PyFloat(0), PyFloat(0), PyNone>>,
      <<PyStr("draw_2d_rectangle"), PyFloat(0), PyFloat(0), PyFloat(0),
        PyFloat(1), PyFloat(1), PyFloat(0), PyStr("XY")>>,
      <<PyStr("get_body_info_by_token"), [ty |-> "str", s |-> "B", n |-> 1]>> }

\* a tuple whose name no branch of process_task tests
UnknownTuple == <<PyStr("unknown_op")>>

\* values of locals that are not live
NoOutcome == [response |-> TimeoutResponse, failed |-> FALSE]

\* ------------------------------------------------------------------ design
\* design.allParameters of the open design: one model parameter and one user
\* parameter
InitialParams ==
    [d1 |-> [expr |-> "1", user |-> FALSE],
     u1 |-> [expr |-> "2", user |-> TRUE]]

\* get_model_parameters(design): the descriptors of the parameters that are
\* not user parameters
GetModelParameters_all(p) ==
    {[Name |-> n, Expression |-> p[n].expr] : n \in DOMAIN p}
GetModelParameters(p) ==
    {[Name |-> n, Expression |-> p[n].expr] :
        n \in {m \in DOMAIN p : ~p[m].user}}

\* set_parameter(design, ui, name, value): param.expression = value when the
\* host accepts it; itemByName returns None for an unknown name and the
\* assignment raises inside the try
ParamsAfter(task, hostOk, p) ==
    IF /\ TaskNameOf(task) = "set_parameter"
       /\ hostOk
       /\ task[2].s \in DOMAIN p
    THEN [p EXCEPT ![task[2].s].expr = task[3].s]
    ELSE p

\* tickLog before any notify call
NoTick == [last |-> "none", left |-> {}]

\* -------------------------------------------------------------------- Init
\* The state after run() returned with a design open: handler registered,
\* ticker thread and server thread started.
Init ==
    /\ task_queue = <<>>
    /\ response_dict = <<>>
    /\ response_lock = "free"
    /\ task_id_counter = 0
    /\ stopFlag = FALSE
    /\ handlers = TRUE
    /\ events = 0
    /\ httpd = "serving"
    /\ bodies = 0
    /\ tpc = "wait"
    /\ dpc = [c \in Contexts |-> "idle"]
    /\ cur = [c \in Contexts |-> <<>>]
    /\ outcome = [c \in Contexts |-> NoOutcome]
    /\ fpc = "idle"
    /\ req = <<>>
    /\ task_id = NoId
    /\ timeout = 0
    /\ elapsed = 0
    /\ response = TimeoutResponse
    /\ gpc = [t \in Callers |-> "idle"]
    /\ gtmp = [t \in Callers |-> 0]
    /\ calls = <<>>
    /\ enqueued = <<>>
    /\ dispatched = <<>>
    /\ drainCount = 0
    /\ raisedInDrain = FALSE
    /\ published = <<>>
    /\ returned = <<>>
    /\ reread = "no"
    /\ params = InitialParams
    /\ snapshot = GetModelParameters(InitialParams)
    /\ intime = {}
    /\ tickLog = NoTick
    /\ cpc = "idle"
    /\ attempt = 0
    /\ outcomes = <<>>
    /\ cresult = "none"
    /\ ccalls = 0

\* -------------------------------------------------------- generate_task_id
\* task_id_counter += 1
Incremented(v) == v + 1

\* The server thread is the only thread of the add-in that calls
\* generate_task_id, so its call runs without interference.
\* do_POST reaches queue_task_and_wait(tuple, timeout), which calls
\* generate_task_id.  HTTPServer.serve_forever handles one request at a
\* time and takes no request after shutdown().
QueueTaskAndWait(tuple, T) ==
    /\ fpc = "idle"
    /\ httpd = "serving"
    /\ task_id_counter < MaxRequests
    /\ req' = tuple
    /\ timeout' = T
    /\ task_id_counter' = Incremented(task_id_counter)
    /\ task_id' = task_id_counter'
    /\ fpc' = "put"
    /\ UNCHANGED <<task_queue, response_dict, response_lock, stopFlag,
                   handlers, events, httpd, bodies, tpc, hostVars, elapsed,
                   response, genVars, histVars>>
    /\ UNCHANGED extVars

ReceiveRequest ==
    \E tuple \in PostTuples : QueueTaskAndWait(tuple, DefaultTimeout)

\* ------------------------------------------------------------ server thread
\* task_with_id = task_tuple + (task_id,); task_queue.put(task_with_id);
\* get_task_response is entered: start_time = time.time()
PutTask ==
    /\ fpc = "put"
    /\ task_queue' = Append(task_queue, TaskWithId(req, task_id))
    /\ enqueued' = Append(enqueued, task_id)
    /\ elapsed' = 0
    /\ fpc' = "test"
    /\ UNCHANGED <<response_dict, response_lock, task_id_counter, stopFlag,
                   handlers, events, httpd, bodies, tpc, hostVars, req,
                   task_id, timeout, response, genVars, dispatched,
                   drainCount, raisedInDrain, published, returned, reread>>
    /\ UNCHANGED extVars

\* the loop condition time.time() - start_time < timeout
LoopContinues_early(e, T) == e < T - PollInterval
LoopContinues(e, T) == e < T

\* while time.time() - start_time < timeout: with response_lock: (enter);
\* after the loop the timeout dict is returned
GtrTest ==
    /\ fpc = "test"
    /\ IF LoopContinues(elapsed, timeout)
       THEN /\ LockAvailable(response_lock)
            /\ response_lock' = "http"
            /\ fpc' = "check"
            /\ UNCHANGED response
       ELSE /\ fpc' = "respond"
            /\ response' = TimeoutResponse
            /\ UNCHANGED response_lock
    /\ UNCHANGED <<task_queue, response_dict, task_id_counter, stopFlag,
                   handlers, events, httpd, bodies, tpc, hostVars, req,
                   task_id, timeout, elapsed, genVars, histVars>>
    /\ UNCHANGED extVars

\* the test of the with block; when it fails the lock is released and
\* time.sleep(0.05) is called
GtrCheck ==
    /\ fpc = "check"
    /\ IF ResponseReady(response_dict, task_id)
       THEN /\ fpc' = "pop"
            /\ UNCHANGED response_lock
       ELSE /\ fpc' = "sleep"
            /\ response_lock' = "free"
    /\ UNCHANGED <<task_queue, response_dict, task_id_counter, stopFlag,
                   handlers, events, httpd, bodies, tpc, hostVars, req,
                   task_id, timeout, elapsed, response, genVars, histVars>>
    /\ UNCHANGED extVars

\* response = response_dict.pop(task_id); return response releases the lock
GtrPop ==
    /\ fpc = "pop"
    /\ response' = response_dict[task_id]
    /\ response_dict' = DictPop(response_dict, task_id)
    /\ response_lock' = "free"
    /\ fpc' = "respond"
    /\ UNCHANGED <<task_queue, task_id_counter, stopFlag, handlers, events,
                   httpd, bodies, tpc, hostVars, req, task_id, timeout,
                   elapsed, genVars, histVars>>
    /\ UNCHANGED extVars

\* time.sleep(0.05) returns: PollInterval units of time have passed
GtrSleep ==
    /\ fpc = "sleep"
    /\ elapsed' = elapsed + PollInterval
    /\ fpc' = "test"
    /\ UNCHANGED <<sharedVars, tpc, hostVars, req, task_id, timeout,
                   response, genVars, histVars>>
    /\ UNCHANGED extVars

\* the status do_POST passes to send_json_response for a task response:
\* 200 if response.get('success') else 500
StatusOf_ok(r) == 200
StatusOf(r) == IF r.success THEN 200 ELSE 500

\* get_task_response and queue_task_and_wait return; do_POST sends the
\* response and the request is over
Respond ==
    /\ fpc = "respond"
    /\ returned' = Append(returned, [id |-> task_id, response |-> response,
                                     status |-> StatusOf(response)])
    /\ reread' = (IF reread = "running" THEN "done" ELSE reread)
    /\ fpc' = "idle"
    /\ req' = <<>>
    /\ task_id' = NoId
    /\ timeout' = 0
    /\ elapsed' = 0
    /\ response' = TimeoutResponse
    /\ UNCHANGED <<sharedVars, tpc, hostVars, genVars, enqueued, dispatched,
                   drainCount, raisedInDrain, published>>
    /\ UNCHANGED extVars

\* serve_forever leaves its loop after httpd.shutdown()
ServerExit ==
    /\ fpc = "idle"
    /\ httpd = "shutdown"
    /\ fpc' = "closed"
    /\ UNCHANGED <<sharedVars, tpc, hostVars, req, task_id, timeout, elapsed,
                   response, genVars, histVars>>
    /\ UNCHANGED extVars

\* ------------------------------------------------------- request parsing
\* data.get(key, default) on the parsed JSON body
DataGet(data, key, default) ==
    IF key \in DOMAIN data THEN data[key] ELSE default

\* float(x): raises TypeError for None and ValueError for a string that is
\* not a number
ToFloat(x) ==
    IF x.ty \in {"float", "int", "bool"}
    THEN [raised |-> FALSE, value |-> PyFloat(x.n)]
    ELSE IF x.ty = "str" /\ x.s = "5"
    THEN [raised |-> FALSE, value |-> PyFloat(5)]
    ELSE [raised |-> TRUE, value |-> PyNone]

\* str(x): never raises; str(None) is 'None'
ToStr(x) ==
    IF x.ty = "str" THEN x
    ELSE IF x.ty = "none" THEN PyStr("None")
    ELSE [ty |-> "str", s |-> "number", n |-> x.n]

\* truth value of x in "if name and value"
Truthy(x) ==
    IF x.ty = "none" THEN FALSE
    ELSE IF x.ty = "str" THEN x.s # ""
    ELSE x.n # 0

\* outcomes of the parsing part of a do_POST branch
PostTask(tuple) ==
    [kind |-> "task", tuple |-> tuple, status |-> 0, error |-> ""]
PostReply(status, error) ==
    [kind |-> "reply", tuple |-> <<>>, status |-> status, error |-> error]

\* The branches of do_POST for /set_parameter, /draw_cylinder and
\* /get_body_info up to queue_task_and_wait: an exception of a conversion
\* reaches the outer except, which answers 500.
DoPost(r) ==
    IF r.path = "/set_parameter"
    THEN LET name == DataGet(r.data, "name", PyNone)
             value == DataGet(r.data, "value", PyNone)
         IN  IF Truthy(name) /\ Truthy(value)
             THEN PostTask(<<PyStr("set_parameter"), name, value>>)
             ELSE PostReply(400, "Missing name or value")
    ELSE IF r.path = "/draw_cylinder"
    THEN LET radius == ToFloat(DataGet(r.data, "radius", PyNone))
             height == ToFloat(DataGet(r.data, "height", PyNone))
             x == ToFloat(DataGet(r.data, "x", PyInt(0)))
             y == ToFloat(DataGet(r.data, "y", PyInt(0)))
             z == ToFloat(DataGet(r.data, "z", PyInt(0)))
             plane == DataGet(r.data, "plane", PyStr("XY"))
         IN  IF \/ radius.raised \/ height.raised
                \/ x.raised \/ y.raised \/ z.raised
             THEN PostReply(500, "exception")
             ELSE PostTask(<<PyStr("draw_cylinder"), radius.value,
                             height.value, x.value, y.value, z.value,
                             plane>>)
    ELSE IF r.path = "/get_body_info"
    THEN PostTask(<<PyStr("get_body_info_by_token"),
                    ToStr(DataGet(r.data, "body_token", PyNone))>>)
    ELSE PostReply(404, "Not Found")

\* the fields each branch reads without a default value
RequiredFields(path) ==
    IF path = "/set_parameter" THEN {"name", "value"}
    ELSE IF path = "/draw_cylinder" THEN {"radius", "height"}
    ELSE IF path = "/get_body_info" THEN {"body_token"}
    ELSE {}

\* a required field is absent, null, empty, or not of the branch's type
MissingRequired(r) ==
    \E f \in RequiredFields(r.path) :
        \/ f \notin DOMAIN r.data
        \/ r.data[f].ty = "none"
        \/ r.data[f].ty = "str" /\ r.data[f].s = ""
        \/ r.path = "/draw_cylinder" /\ ToFloat(r.data[f]).raised

\* request bodies for the three branches, complete and incomplete
PostRequests ==
    { [path |-> "/set_parameter", data |-> <<>>],
      [path |-> "/set_parameter",
       data |-> [name |-> PyStr("d1"), value |-> PyStr("5")]],
      [path |-> "/draw_cylinder", data |-> <<>>],
      [path |-> "/draw_cylinder",
       data |-> [radius |-> PyStr("abc"), height |-> PyFloat(5)]],
      [path |-> "/draw_cylinder",
       data |-> [radius |-> PyStr("5"), height |-> PyFloat(5)]],
      [path |-> "/get_body_info", data |-> <<>>] }

\* number of requests answered without a task
Rejects == Cardinality({k \in 1..Len(returned) : returned[k].id = NoId})

\* do_POST for one request: the branch either queues a task and waits, or
\* sends its reply at once
HandlePost(r) ==
    /\ fpc = "idle"
    /\ httpd = "serving"
    /\ LET p == DoPost(r)
       IN  IF p.kind = "task"
           THEN QueueTaskAndWait(p.tuple, DefaultTimeout)
           ELSE /\ Rejects < MaxRejects
                /\ returned' = Append(returned,
                      [id |-> NoId,
                       response |-> [success |-> FALSE, error |-> p.error],
                       status |-> p.status, request |-> r])
                /\ UNCHANGED <<sharedVars, tpc, hostVars, serverVars,
                               genVars, enqueued, dispatched, drainCount,
                               raisedInDrain, published, reread, extVars>>

ReceivePost == \E r \in PostRequests : HandlePost(r)

\* --------------------------------------------------- further operations
\* handlers that wait for the user to pick geometry: ui.selectEntity in
\* create_thread and revolve_profile
InteractiveHandlers == {"threaded", "revolve_profile"}

\* the timeout argument of the queue_task_and_wait call of a branch: only
\* /threaded passes timeout=30.0
PostTimeout(name) ==
    IF name = "threaded" THEN LongTimeout ELSE DefaultTimeout

\* The task tuples built by do_POST, with the default field values, for
\* /set_parameter (name d1, value 5), /threaded, /revolve and
\* /set_body_visibility.
OpTuples ==
    { <<PyStr("set_parameter"), PyStr("d1"), PyStr("5")>>,
      <<PyStr("threaded"), PyBool(TRUE), PyInt(30)>>,
      <<PyStr("revolve_profile"), PyFloat(360)>>,
      <<PyStr("set_body_visibility"), [ty |-> "str", s |-> "B", n |-> 1],
        PyBool(TRUE)>> }

ReceiveOp ==
    \E tuple \in OpTuples :
        QueueTaskAndWait(tuple, PostTimeout(TaskNameOf(tuple)))

\* do_GET for /list_parameters: the snapshot is sent at once
DoGet ==
    /\ fpc = "idle"
    /\ httpd = "serving"
    /\ Rejects < MaxRejects
    /\ returned' = Append(returned,
          [id |-> NoId,
           response |-> [success |-> TRUE, ModelParameter |-> snapshot],
           status |-> 200,
           request |-> [path |-> "/list_parameters", data |-> <<>>]])
    /\ UNCHANGED <<sharedVars, tpc, hostVars, serverVars, genVars, enqueued,
                   dispatched, drainCount, raisedInDrain, published, reread,
                   extVars>>

\* ------------------------------------------------------------ ticker thread
\* self.stopped.wait(0.2): the value returned is the flag of the event
StoppedWait_sleep(flag) == FALSE
StoppedWait(flag) == flag

\* while not self.stopped.wait(0.2)
TickerWait ==
    /\ tpc = "wait"
    /\ tpc' = IF StoppedWait(stopFlag) THEN "done" ELSE "fire"
    /\ UNCHANGED <<sharedVars, hostVars, serverVars, genVars, histVars>>
    /\ UNCHANGED extVars

\* app.fireCustomEvent(myCustomEvent, json.dumps({})) returns: the event
\* is posted to the host
TickerFireOk ==
    /\ tpc = "fire"
    /\ events < MaxEvents
    /\ events' = events + 1
    /\ tpc' = "wait"
    /\ UNCHANGED <<task_queue, response_dict, response_lock, task_id_counter,
                   stopFlag, handlers, httpd, bodies, hostVars, serverVars,
                   genVars, histVars, extVars>>

\* position of the ticker thread after fireCustomEvent raised: break leaves
\* the while loop and run returns
AfterFireRaise_continue == "wait"
AfterFireRaise == "done"

\* app.fireCustomEvent raises; except: break
TickerFireRaise ==
    /\ tpc = "fire"
    /\ tpc' = AfterFireRaise
    /\ UNCHANGED <<sharedVars, hostVars, serverVars, genVars, histVars,
                   extVars>>

TickerFire == TickerFireOk \/ TickerFireRaise

\* --------------------------------------------------------------- dispatcher
\* The host delivers a fired custom event: TaskEventHandler.notify is called
\* if the handler is still registered.  design was checked by run() and is
\* never reassigned, so "if design:" holds.  ModelParameterSnapshot =
\* get_model_parameters(design) either returns, and the while loop is
\* entered, or raises into the outer except of notify, which returns.
NotifyCalled(c) ==
    /\ c \in DeliveryContexts
    /\ dpc[c] = "idle"
    /\ events > 0
    /\ events' = events - 1
    /\ UNCHANGED <<task_queue, response_dict, response_lock, task_id_counter,
                   stopFlag, handlers, httpd, bodies, tpc, cur, outcome,
                   serverVars, genVars, enqueued, dispatched, published,
                   returned, reread, params, intime, clientVars>>

\* the refresh returns: the snapshot is replaced and the while loop entered
NotifyEnter(c) ==
    /\ NotifyCalled(c)
    /\ handlers
    /\ snapshot' = GetModelParameters(params)
    /\ dpc' = [dpc EXCEPT ![c] = "loop"]
    /\ drainCount' = 0
    /\ raisedInDrain' = FALSE

\* position of notify after get_model_parameters raised: the outer except
\* clause passes and notify returns
AfterRefreshRaise_guarded(c) == "loop"
AfterRefreshRaise(c) == "idle"

\* the refresh raises
NotifyRaise(c) ==
    /\ NotifyCalled(c)
    /\ handlers
    /\ dpc' = [dpc EXCEPT ![c] = AfterRefreshRaise(c)]
    /\ drainCount' = 0
    /\ raisedInDrain' = FALSE
    /\ UNCHANGED snapshot

\* the handler was removed by stop(): the event is dropped
NotifySkip(c) ==
    /\ NotifyCalled(c)
    /\ ~handlers
    /\ UNCHANGED <<dpc, drainCount, raisedInDrain, snapshot>>

NotifyBegin(c) ==
    /\ NotifyEnter(c) \/ NotifyRaise(c) \/ NotifySkip(c)
    /\ UNCHANGED tickLog

\* while not task_queue.empty(): task = task_queue.get_nowait();
\* process_task(task) up to the call of the handler.  A name that no branch
\* tests falls through the if/elif chain.  process_task catches every
\* exception of the handler itself, so the except clauses of the while loop
\* are not reached.
DrainStep(c) ==
    /\ dpc[c] = "loop"
    /\ IF QueueEmpty(task_queue)
       THEN /\ dpc' = [dpc EXCEPT ![c] = "idle"]
            /\ drainCount' = 0
            /\ raisedInDrain' = FALSE
            /\ UNCHANGED <<task_queue, cur, dispatched>>
       ELSE LET g == QueueGet(task_queue)
            IN  /\ task_queue' = g.rest
                /\ cur' = [cur EXCEPT ![c] = g.task]
                /\ drainCount' = drainCount + 1
                /\ UNCHANGED raisedInDrain
                /\ IF TaskNameOf(g.task) \in DispatchTable
                   THEN /\ dpc' = [dpc EXCEPT ![c] = "handler"]
                        /\ dispatched' = Append(dispatched, AppendedId(g.task))
                   ELSE /\ dpc' = [dpc EXCEPT ![c] = "fallthrough"]
                        /\ UNCHANGED dispatched
    /\ UNCHANGED <<response_dict, response_lock, task_id_counter, stopFlag,
                   handlers, events, httpd, bodies, tpc, outcome, serverVars,
                   genVars, enqueued, published, returned, reread>>
    /\ UNCHANGED extVars

\* The handler returns or raises (or no branch matched): process_task picks
\* the response and calls set_task_response, which enters the with block.
\* Without an id nothing is published and the while loop goes on.
FinishTask(c) ==
    /\ dpc[c] \in {"handler", "fallthrough"}
    /\ \E hostOk \in BOOLEAN :
         LET h == IF dpc[c] = "handler"
                  THEN RunHandler(cur[c], hostOk, bodies)
                  ELSE [raised |-> FALSE, entity_data |-> NoData,
                        bodies |-> bodies]
         IN  /\ dpc[c] = "fallthrough" => hostOk
             /\ bodies' = h.bodies
             /\ params' = ParamsAfter(cur[c], hostOk /\ dpc[c] = "handler",
                                      params)
             /\ raisedInDrain' = (raisedInDrain \/ h.raised)
             /\ outcome' = [outcome EXCEPT ![c] =
                   [response |-> IF h.raised THEN FailureResponse(cur[c])
                                 ELSE SuccessResponse(cur[c], h.entity_data),
                    failed |-> /\ dpc[c] = "handler"
                               /\ WorkFails(cur[c], hostOk, bodies)]]
    /\ IF TaskIdOf(cur[c]) = NoId
       THEN /\ dpc' = [dpc EXCEPT ![c] = "loop"]
            /\ UNCHANGED response_lock
       ELSE /\ LockAvailable(response_lock)
            /\ response_lock' = c
            /\ dpc' = [dpc EXCEPT ![c] = "write"]
    /\ UNCHANGED <<task_queue, response_dict, task_id_counter, stopFlag,
                   handlers, events, httpd, tpc, cur, serverVars, genVars,
                   enqueued, dispatched, drainCount, published, returned,
                   reread>>
    /\ UNCHANGED <<snapshot, logVars, clientVars>>

\* position of notify once process_task has published a response, whether
\* the handler raised or not: the while loop goes on
AfterPublish_one(success) == "idle"
AfterPublish_abort(success) == IF success THEN "loop" ELSE "idle"
AfterPublish(success) == "loop"

\* response_dict[task_id] = {...}, the release; process_task returns
PublishBody(c) ==
    /\ dpc[c] = "write"
    /\ response_dict' = DictStore(response_dict, TaskIdOf(cur[c]),
                                  outcome[c].response)
    /\ response_lock' = "free"
    /\ published' = Append(published,
          [id |-> AppendedId(cur[c]), name |-> TaskNameOf(cur[c]),
           response |-> outcome[c].response, failed |-> outcome[c].failed,
           nth |-> drainCount])
    /\ dpc' = [dpc EXCEPT ![c] = AfterPublish(outcome[c].response.success)]
    /\ cur' = [cur EXCEPT ![c] = <<>>]
    /\ outcome' = [outcome EXCEPT ![c] = NoOutcome]
    /\ UNCHANGED <<task_queue, task_id_counter, stopFlag, handlers, events,
                   httpd, bodies, tpc, serverVars, genVars, enqueued,
                   dispatched, drainCount, raisedInDrain, returned, reread>>
    /\ UNCHANGED <<designVars, tickLog, clientVars>>

PublishWrite(c) ==
    /\ PublishBody(c)
    /\ UNCHANGED intime

\* --------------------------------------------------------------------- stop
\* stop(context), called by the host on its main thread: sets the flag,
\* removes the handler, clears the queue and calls httpd.shutdown(), which
\* blocks until serve_forever has returned.
Stop ==
    /\ dpc["main"] = "idle"
    /\ httpd = "serving"
    /\ stopFlag' = TRUE
    /\ handlers' = FALSE
    /\ task_queue' = StopClear(task_queue)
    /\ httpd' = "shutdown"
    /\ dpc' = [dpc EXCEPT !["main"] = "stopping"]
    /\ UNCHANGED <<response_dict, response_lock, task_id_counter, events,
                   bodies, tpc, cur, outcome, serverVars, genVars, histVars>>
    /\ UNCHANGED extVars

\* httpd.shutdown() returns; httpd.server_close(); httpd = None
StopDone ==
    /\ dpc["main"] = "stopping"
    /\ fpc = "closed"
    /\ httpd' = "closed"
    /\ dpc' = [dpc EXCEPT !["main"] = "stopped"]
    /\ UNCHANGED <<task_queue, response_dict, response_lock, task_id_counter,
                   stopFlag, handlers, events, bodies, tpc, cur, outcome,
                   serverVars, genVars, histVars>>
    /\ UNCHANGED extVars

\* ------------------------------------------------------------ specification
Next ==
    \/ ReceiveRequest
    \/ PutTask
    \/ GtrTest
    \/ GtrCheck
    \/ GtrPop
    \/ GtrSleep
    \/ Respond
    \/ ServerExit
    \/ TickerWait
    \/ TickerFire
    \/ \E c \in Contexts : NotifyBegin(c)
    \/ \E c \in Contexts : DrainStep(c)
    \/ \E c \in Contexts : FinishTask(c)
    \/ \E c \in Contexts : PublishWrite(c)
    \/ Stop
    \/ StopDone

Spec == Init /\ [][Next]_vars


\* ------------------------------------------- generate_task_id, concurrently
\* The function under concurrent callers, one bytecode group per step.
\* A caller enters generate_task_id.
CallGen(t) ==
    /\ gpc[t] = "idle"
    /\ Len(calls) + Cardinality({u \in Callers : gpc[u] # "idle"}) < MaxCalls
    /\ gpc' = [gpc EXCEPT ![t] = "load"]
    /\ UNCHANGED <<sharedVars, tpc, hostVars, serverVars, gtmp, calls,
                   histVars>>
    /\ UNCHANGED extVars

\* task_id_counter += 1: LOAD_GLOBAL task_id_counter
GenLoad(t) ==
    /\ gpc[t] = "load"
    /\ gtmp' = [gtmp EXCEPT ![t] = task_id_counter]
    /\ gpc' = [gpc EXCEPT ![t] = "store"]
    /\ UNCHANGED <<sharedVars, tpc, hostVars, serverVars, calls, histVars>>
    /\ UNCHANGED extVars

\* task_id_counter += 1: INPLACE_ADD, STORE_GLOBAL task_id_counter
GenStore(t) ==
    /\ gpc[t] = "store"
    /\ task_id_counter' = Incremented(gtmp[t])
    /\ gpc' = [gpc EXCEPT ![t] = "ret"]
    /\ gtmp' = [gtmp EXCEPT ![t] = 0]
    /\ UNCHANGED <<task_queue, response_dict, response_lock, stopFlag,
                   handlers, events, httpd, bodies, tpc, hostVars,
                   serverVars, calls, histVars>>
    /\ UNCHANGED extVars

\* return task_id_counter: LOAD_GLOBAL task_id_counter, RETURN_VALUE
GenReturn(t) ==
    /\ gpc[t] = "ret"
    /\ calls' = Append(calls, task_id_counter)
    /\ gpc' = [gpc EXCEPT ![t] = "idle"]
    /\ UNCHANGED <<sharedVars, tpc, hostVars, serverVars, gtmp, histVars>>
    /\ UNCHANGED extVars

NextIds ==
    \/ \E t \in Callers : CallGen(t)
    \/ \E t \in Callers : GenLoad(t)
    \/ \E t \in Callers : GenStore(t)
    \/ \E t \in Callers : GenReturn(t)

SpecIds == Init /\ [][NextIds]_vars

\* ------------------------------------------------------ HTTPServer, one thread
\* httpd = HTTPServer(server_address, Handler); httpd.serve_forever(): the
\* one server thread accepts a connection, runs the handler to its end
\* (do_POST, queue_task_and_wait, generate_task_id, get_task_response, the
\* reply) and only then accepts the next one; connections made meanwhile
\* wait in the listen backlog.
InService(g) == {t \in Callers : g[t] \notin {"idle", "backlog"}}

\* whether serve_forever takes the next connection: HTTPServer has no
\* ThreadingMixIn, so only when no handler is running
CanAccept_threading(g) == TRUE
CanAccept(g) == InService(g) = {}

\* a client connects
ServeConnect(t) ==
    /\ gpc[t] = "idle"
    /\ Len(calls) + Cardinality({u \in Callers : gpc[u] # "idle"}) < MaxServed
    /\ gpc' = [gpc EXCEPT ![t] = "backlog"]
    /\ UNCHANGED <<sharedVars, tpc, hostVars, serverVars, gtmp, calls,
                   histVars, extVars>>

\* the connection is accepted and its handler runs up to generate_task_id
ServeAccept(t) ==
    /\ gpc[t] = "backlog"
    /\ CanAccept(gpc)
    /\ gpc' = [gpc EXCEPT ![t] = "load"]
    /\ UNCHANGED <<sharedVars, tpc, hostVars, serverVars, gtmp, calls,
                   histVars, extVars>>

\* generate_task_id returns; the task is put and get_task_response entered
ServeAwait(t) ==
    /\ gpc[t] = "ret"
    /\ calls' = Append(calls, task_id_counter)
    /\ gpc' = [gpc EXCEPT ![t] = "await"]
    /\ UNCHANGED <<sharedVars, tpc, hostVars, serverVars, gtmp, histVars,
                   extVars>>

\* get_task_response returns and the reply is sent: the handler is over
ServeReply(t) ==
    /\ gpc[t] = "await"
    /\ gpc' = [gpc EXCEPT ![t] = "idle"]
    /\ UNCHANGED <<sharedVars, tpc, hostVars, serverVars, gtmp, calls,
                   histVars, extVars>>

NextServe ==
    \/ \E t \in Callers : ServeConnect(t)
    \/ \E t \in Callers : ServeAccept(t)
    \/ \E t \in Callers : GenLoad(t)
    \/ \E t \in Callers : GenStore(t)
    \/ \E t \in Callers : ServeAwait(t)
    \/ \E t \in Callers : ServeReply(t)

SpecServe == Init /\ [][NextServe]_vars

\* ------------------------------------------------- test harness of the spec
\* The scenarios of the spec's section 8 drive the bridge directly: a task
\* with a name outside the dispatch table is queued and awaited, and
\* get_task_response is called a second time for an id already read.
TestUnknown == QueueTaskAndWait(UnknownTuple, DefaultTimeout)

\* ids whose published response get_task_response has returned
ConsumedIds ==
    {returned[k].id : k \in {n \in 1..Len(returned) :
                                returned[n].response # TimeoutResponse}}

\* ids for which get_task_response has returned the timeout dict
TimedOutIds ==
    {returned[k].id : k \in {n \in 1..Len(returned) :
                                returned[n].response = TimeoutResponse}}

\* get_task_response(id, timeout) called again for a consumed id
TestAwait ==
    /\ fpc = "idle"
    /\ httpd = "serving"
    /\ reread = "no"
    /\ \E id \in ConsumedIds : task_id' = id
    /\ timeout' = DefaultTimeout
    /\ elapsed' = 0
    /\ reread' = "running"
    /\ fpc' = "test"
    /\ UNCHANGED <<sharedVars, tpc, hostVars, req, response, genVars,
                   enqueued, dispatched, drainCount, raisedInDrain,
                   published, returned>>
    /\ UNCHANGED extVars

NextUnknown ==
    \/ Next
    \/ TestUnknown

SpecUnknown == Init /\ [][NextUnknown]_vars

NextOps ==
    \/ ReceiveOp
    \/ DoGet
    \/ PutTask
    \/ GtrTest
    \/ GtrCheck
    \/ GtrPop
    \/ GtrSleep
    \/ Respond
    \/ ServerExit
    \/ TickerWait
    \/ TickerFire
    \/ \E c \in Contexts : NotifyBegin(c)
    \/ \E c \in Contexts : DrainStep(c)
    \/ \E c \in Contexts : FinishTask(c)
    \/ \E c \in Contexts : PublishWrite(c)
    \/ Stop
    \/ StopDone

SpecOps == Init /\ [][NextOps]_vars

\* ------------------------------------------------- publish against the clock
\* The clock of get_task_response stands at elapsed until time.sleep
\* returns, so a result written while the waiter of its id is in the loop
\* with elapsed < timeout is written before the timeout has elapsed.
BeforeDeadline(id) ==
    /\ task_id = id
    /\ fpc \in {"test", "check", "sleep"}
    /\ elapsed < timeout

PublishTimed(c) ==
    /\ PublishBody(c)
    /\ intime' = IF BeforeDeadline(TaskIdOf(cur[c]))
                 THEN intime \cup {TaskIdOf(cur[c])}
                 ELSE intime

NextTimed ==
    \/ ReceiveRequest
    \/ PutTask
    \/ GtrTest
    \/ GtrCheck
    \/ GtrPop
    \/ GtrSleep
    \/ Respond
    \/ ServerExit
    \/ TickerWait
    \/ TickerFire
    \/ \E c \in Contexts : NotifyBegin(c)
    \/ \E c \in Contexts : DrainStep(c)
    \/ \E c \in Contexts : FinishTask(c)
    \/ \E c \in Contexts : PublishTimed(c)
    \/ Stop
    \/ StopDone

SpecTimed == Init /\ [][NextTimed]_vars

\* ------------------------------------------------- the calls of notify
\* notify with a record of how its last call went and of the ids that were
\* queued when a refresh raised
NotifyLogged(c) ==
    \E how \in {"entered", "raised", "skipped"} :
        IF how = "entered"
        THEN /\ NotifyEnter(c)
             /\ tickLog' = [tickLog EXCEPT !.last = "entered"]
        ELSE IF how = "raised"
             THEN /\ NotifyRaise(c)
                  /\ tickLog' = [last |-> "raised",
                                 left |-> tickLog.left
                                            \cup QueuedIds(task_queue)]
             ELSE /\ NotifySkip(c)
                  /\ UNCHANGED tickLog

NextTicks ==
    \/ ReceiveRequest
    \/ PutTask
    \/ GtrTest
    \/ GtrCheck
    \/ GtrPop
    \/ GtrSleep
    \/ Respond
    \/ ServerExit
    \/ TickerWait
    \/ TickerFire
    \/ \E c \in Contexts : NotifyLogged(c)
    \/ \E c \in Contexts : DrainStep(c)
    \/ \E c \in Contexts : FinishTask(c)
    \/ \E c \in Contexts : PublishWrite(c)
    \/ Stop
    \/ StopDone

SpecTicks == Init /\ [][NextTicks]_vars

\* ------------------------------------------------- client: send_request
\* max_retries = 3
MaxRetries == 3

\* What one requests.post and the reading of its response come to: a
\* response with success true (or absent), a well-formed response with
\* success false, a body that is not JSON, requests.Timeout,
\* requests.ConnectionError, another requests.RequestException, or any
\* other exception.
AttemptOutcomes ==
    {"ok", "app_failure", "bad_json", "timeout", "connection", "transport",
     "unexpected"}

\* the except clauses that do not re-raise unless it is the last attempt
Retried_all(o) == o # "ok"
Retried(o) == o \in {"timeout", "connection", "transport"}

nonClientVars == <<sharedVars, tpc, hostVars, serverVars, genVars, histVars,
                   designVars, logVars>>

\* send_request is called: the for loop starts with attempt 0
SendCall ==
    /\ cpc = "idle"
    /\ ccalls < MaxSends
    /\ ccalls' = ccalls + 1
    /\ cpc' = "request"
    /\ attempt' = 0
    /\ outcomes' = <<>>
    /\ cresult' = "none"
    /\ UNCHANGED nonClientVars

\* one pass of the for loop: the request is posted and its outcome handled
SendAttempt ==
    /\ cpc = "request"
    /\ \E o \in AttemptOutcomes :
          /\ outcomes' = Append(outcomes, o)
          /\ IF o = "ok"
             THEN /\ cresult' = "returned"
                  /\ cpc' = "idle"
                  /\ UNCHANGED attempt
             ELSE IF Retried(o) /\ attempt # MaxRetries - 1
                  THEN /\ attempt' = attempt + 1
                       /\ UNCHANGED <<cpc, cresult>>
                  ELSE /\ cresult' = "raised"
                       /\ cpc' = "idle"
                       /\ UNCHANGED attempt
    /\ UNCHANGED <<ccalls, nonClientVars>>

NextSend ==
    \/ SendCall
    \/ SendAttempt

SpecSend == Init /\ [][NextSend]_vars

NextPost ==
    \/ Next
    \/ ReceivePost

SpecPost == Init /\ [][NextPost]_vars

NextReread ==
    \/ Next
    \/ TestAwait

SpecReread == Init /\ [][NextReread]_vars

\* ----------------------------------------------------------------- fairness
\* The server thread is scheduled, time passes while it sleeps, and a thread
\* inside the with block of set_task_response leaves it.
ServerStep == GtrTest \/ GtrCheck \/ GtrPop \/ GtrSleep

FairSpec ==
    /\ Spec
    /\ WF_vars(ServerStep)
    /\ WF_vars(\E c \in Contexts : PublishWrite(c))

\* The ticker thread is scheduled: wait(0.2) returns after at most one
\* period, and fireCustomEvent returns or raises.
FairTicker ==
    /\ Spec
    /\ WF_vars(TickerWait)
    /\ WF_vars(TickerFire)

\* The add-in is never stopped, fireCustomEvent and the snapshot refresh
\* never raise, the host delivers every fired event, every handler returns
\* or raises, and each thread is scheduled.
NotifyRefreshed(c) ==
    /\ NotifyEnter(c)
    /\ UNCHANGED tickLog

NextLive ==
    \/ ReceiveRequest
    \/ PutTask
    \/ GtrTest
    \/ GtrCheck
    \/ GtrPop
    \/ GtrSleep
    \/ Respond
    \/ TickerWait
    \/ TickerFireOk
    \/ \E c \in Contexts : NotifyRefreshed(c)
    \/ \E c \in Contexts : DrainStep(c)
    \/ \E c \in Contexts : FinishTask(c)
    \/ \E c \in Contexts : PublishWrite(c)

LiveSpec ==
    /\ Init
    /\ [][NextLive]_vars
    /\ WF_vars(PutTask)
    /\ WF_vars(ServerStep)
    /\ WF_vars(Respond)
    /\ WF_vars(TickerWait)
    /\ WF_vars(TickerFireOk)
    /\ WF_vars(\E c \in Contexts : NotifyRefreshed(c))
    /\ WF_vars(\E c \in Contexts : DrainStep(c))
    /\ WF_vars(\E c \in Contexts : FinishTask(c))
    /\ WF_vars(\E c \in Contexts : PublishWrite(c))

\* ---------------------------------------------------------------- claims
PosIn(seq, x) == CHOOSE k \in 1..Len(seq) : seq[k] = x

\* C1: the identifiers returned by concurrent generate_task_id calls are
\* pairwise distinct.
C1_IdsPairwiseDistinct ==
    \A i, j \in 1..Len(calls) : i # j => calls[i] # calls[j]

\* C2: handlers are invoked in the order in which their tasks were put on
\* the queue, and no task still queued was enqueued before a task whose
\* handler has already been invoked.
C2_Fifo ==
    /\ \A i, j \in 1..Len(dispatched) :
          i < j => PosIn(enqueued, dispatched[i]) < PosIn(enqueued, dispatched[j])
    /\ \A i \in 1..Len(dispatched) : \A k \in 1..Len(task_queue) :
          PosIn(enqueued, dispatched[i])
             < PosIn(enqueued, AppendedId(task_queue[k]))

\* C2 witness: the second handler of one drain is running.
C2_Witness ==
    /\ dpc["main"] = "handler"
    /\ drainCount >= 2

\* C3: a response other than the timeout dict that get_task_response returns
\* is the response notify published for the task that carries the request's
\* own id, and it names the request's own operation.
C3_Correlated ==
    (fpc = "respond" /\ response # TimeoutResponse) =>
        /\ \E k \in 1..Len(published) :
              /\ published[k].id = task_id
              /\ published[k].response = response
        /\ response.message[1] = TaskNameOf(req)

\* C3 witness: two tasks were processed in one drain and the request of the
\* second one gets its own result.
C3_Witness ==
    /\ fpc = "respond"
    /\ response # TimeoutResponse
    /\ \E k \in 1..Len(published) :
          /\ published[k].id = task_id
          /\ published[k].nth >= 2

\* C4: an id whose published response was returned is not in the store, and
\* a second get_task_response for it returns the timeout dict.
C4_ConsumeOnce ==
    /\ \A id \in ConsumedIds : id \notin DOMAIN response_dict
    /\ (fpc = "respond" /\ reread = "running") => response = TimeoutResponse

\* C4 witness: the second read of a consumed id has returned.
C4_Witness ==
    /\ fpc = "respond"
    /\ reread = "running"
    /\ task_id \in ConsumedIds

\* C5: the response published for a task whose name is not in the dispatch
\* table has success = false.
C5_UnknownOperationFails ==
    \A k \in 1..Len(published) :
        published[k].name \notin DispatchTable => ~published[k].response.success

\* C6: the response published for a task whose handler's work failed has
\* success = false.
C6_FailureNeverSuccess ==
    \A k \in 1..Len(published) :
        published[k].failed => ~published[k].response.success

\* C7: a drain in which a handler raised ends only when the queue is empty.
Draining == {"loop", "handler", "fallthrough", "write"}
C7_Isolation ==
    [][\A c \in Contexts :
          (dpc[c] \in Draining /\ dpc'[c] \notin Draining /\ raisedInDrain)
             => QueueEmpty(task_queue)]_vars

\* C7 witness: a handler raised, its failure was published, and the handler
\* of the task queued behind it is running in the same drain.
C7_Witness ==
    /\ raisedInDrain
    /\ dpc["main"] = "handler"
    /\ drainCount >= 2
    /\ \E k \in 1..Len(published) :
          /\ published[k].id = dispatched[Len(dispatched) - 1]
          /\ ~published[k].response.success

\* C8: at most one handler invocation is active.
C8_OneHandler == Cardinality({c \in Contexts : dpc[c] = "handler"}) <= 1

\* C8 witness: a handler runs while the request thread polls and the ticker
\* is about to fire.
C8_Witness ==
    /\ dpc["main"] = "handler"
    /\ fpc = "sleep"
    /\ tpc = "fire"

\* C9: get_task_response returns the timeout dict not before timeout has
\* elapsed and less than one polling interval after it, and a call always
\* returns.
C9_Timeout ==
    /\ [](fpc = "respond" /\ response = TimeoutResponse
            => /\ elapsed >= timeout
               /\ elapsed < timeout + PollInterval)
    /\ (fpc = "test" ~> fpc = "respond")

\* C9 witness: the timeout dict is returned for an id that was not published.
C9_Witness ==
    /\ fpc = "respond"
    /\ response = TimeoutResponse
    /\ \A k \in 1..Len(published) : published[k].id # task_id

\* C10: the entry of an id whose get_task_response returned the timeout dict
\* is never removed from the store.
C10_Orphan ==
    [][\A id \in TimedOutIds :
          id \in DOMAIN response_dict => id \in DOMAIN response_dict']_vars

\* C10 witness: the request timed out, its result was published later and is
\* in the store while a later request is being served.
C10_Witness ==
    /\ \E id \in TimedOutIds : id \in DOMAIN response_dict
    /\ fpc = "respond"
    /\ response # TimeoutResponse

\* the step of stop(): the only step that takes the server out of service
StopStep == httpd = "serving" /\ httpd' = "shutdown"

\* what becomes of the task of a timed-out id in one step: a queued task
\* stays queued or its handler is invoked (or, when byStop, stop() clears
\* the queue); a task in flight stays in flight or its result is in the store
TimedOutTaskKept(id, byStop) ==
    /\ id \in QueuedIds(task_queue) =>
          \/ id \in QueuedIds(task_queue')
          \/ \E c \in Contexts :
                dpc'[c] = "handler" /\ AppendedId(cur'[c]) = id
          \/ byStop /\ StopStep
    /\ \A c \in Contexts :
          (dpc[c] \in {"handler", "write"} /\ AppendedId(cur[c]) = id) =>
             \/ dpc'[c] \in {"handler", "write"} /\ cur'[c] = cur[c]
             \/ ResponseReady(response_dict', id)

\* C11 as stated: the task of a request that has timed out is never removed
\* from the queue without its handler being invoked, and once in flight its
\* result is published.
C11_NeverRemoved ==
    [][\A id \in TimedOutIds : TimedOutTaskKept(id, FALSE)]_vars

\* C11 amended: the timeout cancels nothing: the step that returns the
\* timeout dict changes neither the queue nor a task in flight, the task of
\* a timed-out request leaves the queue only when notify invokes its handler
\* or when stop() clears the queue, and once in flight its result is
\* published.
C11_NoCancellation ==
    [][/\ (fpc = "test" /\ fpc' = "respond") =>
             UNCHANGED <<task_queue, cur, dpc, response_dict>>
       /\ \A id \in TimedOutIds : TimedOutTaskKept(id, TRUE)]_vars

\* C11 witness: the handler of a task runs after its request has returned
\* the timeout dict.
C11_Witness ==
    /\ dpc["main"] = "handler"
    /\ AppendedId(cur["main"]) \in TimedOutIds
    /\ fpc = "idle"

\* positions of process_task between the dequeue and its return
InProcessTask == {"handler", "fallthrough", "write"}

\* number of set_task_response calls made for an id
PublishCount(seq, id) == Cardinality({k \in 1..Len(seq) : seq[k].id = id})

\* C12: no id is published twice; when process_task returns, whether the
\* handler returned, raised, or no branch matched the name, exactly one
\* response has been published for the task's id and it is in the store; and
\* no step replaces a stored response.
C12_PublishOnce ==
    /\ [](\A i, j \in 1..Len(published) :
             i # j => published[i].id # published[j].id)
    /\ [][\A c \in Contexts :
             (dpc[c] \in InProcessTask /\ dpc'[c] \notin InProcessTask) =>
                /\ PublishCount(published', AppendedId(cur[c])) = 1
                /\ ResponseReady(response_dict', AppendedId(cur[c]))]_vars
    /\ [][\A k \in DOMAIN response_dict \cap DOMAIN response_dict' :
             response_dict'[k] = response_dict[k]]_vars

\* C12 witness: one drain has published a failure response for a handler
\* that raised and a response for a name outside the dispatch table.
C12_Witness ==
    /\ dpc["main"] = "loop"
    /\ \E i, j \in 1..Len(published) :
          /\ ~published[i].response.success
          /\ published[j].name \notin DispatchTable
          /\ published[j].nth = 2

\* number of handler invocations made for an id
DispatchCount(id) ==
    Cardinality({k \in 1..Len(dispatched) : dispatched[k] = id})

\* C13 as stated: every task put on the queue is still queued and not yet
\* dispatched, or it has left the queue and its handler was invoked exactly
\* once.
C13_ConsumedExactlyOnce ==
    \A k \in 1..Len(enqueued) :
        \/ /\ enqueued[k] \in QueuedIds(task_queue)
           /\ DispatchCount(enqueued[k]) = 0
        \/ /\ enqueued[k] \notin QueuedIds(task_queue)
           /\ DispatchCount(enqueued[k]) = 1

\* C13 amended: no task is dispatched twice or dispatched while still
\* queued, and a task leaves the queue only when notify invokes its handler
\* or when stop() clears the queue.
C13_AtMostOnce ==
    /\ [](\A k \in 1..Len(enqueued) :
             /\ DispatchCount(enqueued[k]) <= 1
             /\ DispatchCount(enqueued[k]) = 1 =>
                   enqueued[k] \notin QueuedIds(task_queue))
    /\ [][\A id \in QueuedIds(task_queue) :
             \/ id \in QueuedIds(task_queue')
             \/ dispatched' = Append(dispatched, id)
             \/ StopStep]_vars

\* C13 witness: one task was dispatched by notify and a later one was
\* removed by stop() without being dispatched.
C13_Witness ==
    /\ stopFlag
    /\ Len(dispatched) = 1
    /\ \E k \in 1..Len(enqueued) :
          /\ enqueued[k] \notin QueuedIds(task_queue)
          /\ DispatchCount(enqueued[k]) = 0

\* C14: a thread inside a with block of get_task_response or
\* set_task_response holds response_lock, response_dict changes only in a
\* step of the holder, and the entry found by the presence test is still
\* there when it is popped: between the test and the pop nothing else
\* changes the store.
C14_LockHeld ==
    /\ [](fpc \in {"check", "pop"} => response_lock = "http")
    /\ [](\A c \in Contexts : dpc[c] = "write" => response_lock = c)
    /\ [](fpc = "pop" => ResponseReady(response_dict, task_id))
    /\ [][response_dict' # response_dict =>
             \/ fpc = "pop" /\ response_lock = "http"
             \/ \E c \in Contexts : dpc[c] = "write" /\ response_lock = c]_vars
    /\ [][(fpc = "pop" /\ response_dict' # response_dict) =>
             fpc' = "respond"]_vars

\* C14 witness: the request thread is inside the with block while the
\* handler of its own task is about to return and publish.
C14_Witness ==
    /\ fpc = "check"
    /\ response_lock = "http"
    /\ dpc["main"] = "handler"
    /\ AppendedId(cur["main"]) = task_id

\* positions of get_task_response inside its polling loop
Polling == {"test", "check", "pop"}

\* C15: every task in the queue carries an id that generate_task_id has
\* already returned, the id of a request is allocated while its task is not
\* yet in the queue, and a result that is in the store before the request
\* thread has completed its first poll (no sleep yet) stays there until that
\* thread returns it: the thread does not sleep and does not time out.
C15_AllocatedBeforeVisible ==
    /\ [](\A k \in 1..Len(task_queue) :
             /\ IsInstanceInt(task_queue[k][Len(task_queue[k])])
             /\ AppendedId(task_queue[k]) \in 1..task_id_counter)
    /\ [](fpc = "put" =>
             /\ task_id \in 1..task_id_counter
             /\ task_id \notin QueuedIds(task_queue)
             /\ PublishCount(published, task_id) = 0)
    /\ [][(/\ fpc \in Polling
           /\ elapsed = 0
           /\ ResponseReady(response_dict, task_id)) =>
             \/ /\ fpc' \in Polling
                /\ elapsed' = 0
                /\ task_id' = task_id
                /\ ResponseReady(response_dict', task_id)
                /\ response_dict'[task_id] = response_dict[task_id]
             \/ /\ fpc' = "respond"
                /\ response' = response_dict[task_id]]_vars

\* C15 witness: the request returns a published result without having
\* slept: the result was in the store at its first poll.
C15_Witness ==
    /\ fpc = "respond"
    /\ elapsed = 0
    /\ \E k \in 1..Len(published) :
          /\ published[k].id = task_id
          /\ response = published[k].response

\* C16: the step of do_POST that handles a request whose required field is
\* missing or malformed allocates no id and leaves the queue and the store
\* unchanged; the request is answered in that step.
C16_RejectedBeforeEnqueue ==
    [][\A r \in PostRequests :
          (MissingRequired(r) /\ HandlePost(r)) =>
             /\ UNCHANGED <<task_id_counter, task_queue, response_dict>>
             /\ fpc' = "idle"]_vars

\* C17: a request answered without a task because a required field is
\* missing or malformed is answered with status 400.
C17_ClientError ==
    \A k \in 1..Len(returned) :
        (returned[k].id = NoId /\ MissingRequired(returned[k].request)) =>
           returned[k].status = 400

\* C18: the status sent for a task response is 200 exactly when the
\* response has success = true and 500 otherwise; the timeout dict is sent
\* with 500.
C18_StatusMapping ==
    \A k \in 1..Len(returned) :
        /\ returned[k].status = 200 <=> returned[k].response.success
        /\ returned[k].status = 500 <=> ~returned[k].response.success
        /\ returned[k].response = TimeoutResponse => returned[k].status = 500

\* C18 witness: one request was answered with its published result and
\* another one with the timeout dict.
C18_Witness ==
    \E i, j \in 1..Len(returned) :
        /\ returned[i].response.success /\ returned[i].status = 200
        /\ returned[j].response = TimeoutResponse /\ returned[j].status = 500

\* a call of notify with the handler registered returns in this step:
\* either its while loop ends, or the call never reached the loop
TickReturns(c) ==
    \/ dpc[c] \in Draining /\ dpc'[c] \notin Draining
    \/ /\ c \in DeliveryContexts
       /\ handlers
       /\ events' < events
       /\ dpc'[c] = "idle"

C20_TickerStops ==
    /\ [][stopFlag => stopFlag']_vars
    /\ [][(stopFlag /\ tpc = "wait" /\ tpc' # tpc) => tpc' = "done"]_vars
    /\ [][tpc = "done" => (tpc' = "done" /\ events' <= events)]_vars
    /\ (stopFlag ~> tpc = "done")

\* C20 witness: stop() has run to its end and the ticker thread, which was
\* not terminated when the flag was set, has terminated.
C20_Witness ==
    /\ stopFlag
    /\ httpd = "closed"
    /\ tpc = "done"
    /\ events > 0

\* the snapshot lists exactly the parameters of p that are not user
\* parameters, each with its current expression
SnapshotCurrent(snap, p) ==
    /\ \A n \in DOMAIN p :
          ~p[n].user => [Name |-> n, Expression |-> p[n].expr] \in snap
    /\ \A d \in snap :
          /\ d.Name \in DOMAIN p
          /\ ~p[d.Name].user
          /\ d.Expression = p[d.Name].expr

C22_InteractiveLongTimeout ==
    fpc # "idle" =>
        /\ TaskNameOf(req) \in InteractiveHandlers => timeout = LongTimeout
        /\ TaskNameOf(req) \notin InteractiveHandlers =>
              timeout = DefaultTimeout

\* C23: a call of send_request makes at most three attempts; an attempt is
\* followed by another one only when it ended in a timeout, a connection
\* error or another transport fault; an attempt that got a well-formed
\* response with success false is the last one of its call and the call
\* raises, after one attempt when it was the first.
C23_RetryPolicy ==
    /\ Len(outcomes) <= 3
    /\ \A i \in 1..(Len(outcomes) - 1) :
          outcomes[i] \in {"timeout", "connection", "transport"}
    /\ \A i \in 1..Len(outcomes) :
          outcomes[i] = "app_failure" =>
              /\ i = Len(outcomes)
              /\ cpc = "idle"
              /\ cresult = "raised"
    /\ cresult = "returned" => outcomes[Len(outcomes)] = "ok"

\* C23 witness: two transient faults were retried and the third attempt got
\* an application failure, which was raised.
C23_Witness ==
    /\ outcomes = <<"timeout", "connection", "app_failure">>
    /\ cresult = "raised"
    /\ cpc = "idle"

\* C24: a request whose result was published before its timeout had elapsed
\* returns that result and not the timeout failure.
C24_InTimeDelivered ==
    (fpc = "respond" /\ task_id \in intime) => response # TimeoutResponse

\* the ids in a sequence of published responses
PublishedIds == {published[k].id : k \in 1..Len(published)}

\* the terminal states of a task: its published result was returned by
\* get_task_response, or the request got the timeout dict and the result
\* stays in the store
Consumed(id) == id \in ConsumedIds
Orphaned(id) == id \in TimedOutIds /\ id \in DOMAIN response_dict

\* C25: under the fairness of LiveSpec every task put on the queue is
\* eventually dispatched, its result eventually published, and the task
\* eventually consumed or orphaned.
C25_EveryTaskTerminal ==
    \A id \in 1..MaxRequests :
        /\ (id \in QueuedIds(task_queue)) ~>
              (\E k \in 1..Len(dispatched) : dispatched[k] = id)
        /\ (id \in QueuedIds(task_queue)) ~> (id \in PublishedIds)
        /\ (id \in QueuedIds(task_queue)) ~> (Consumed(id) \/ Orphaned(id))

\* C25 witness: one task was consumed and another one orphaned.
C25_Witness ==
    \E a, b \in PublishedIds : Consumed(a) /\ Orphaned(b)

\* C26: the id process_task extracts from the task it was handed is the id
\* queue_task_and_wait allocated for that task (the ids are allocated in the
\* order of the puts and the tasks leave the queue in that order), also
\* when the last parameter of the operation is an int or a bool.
C26_ExtractedIdIsAllocated ==
    \A c \in Contexts :
        cur[c] # <<>> =>
            /\ Len(enqueued) - Len(task_queue) \in 1..Len(enqueued)
            /\ TaskIdOf(cur[c]) = enqueued[Len(enqueued) - Len(task_queue)]
            /\ TaskIdOf(cur[c]) # NoId

\* C26 witness: the tasks of /threaded (last parameter an int) and of
\* /set_body_visibility (last parameter a bool, equal to 1 as an int) were
\* processed under ids that differ from those parameters.
C26_Witness ==
    /\ dpc["main"] = "write"
    /\ TaskNameOf(cur["main"]) = "set_body_visibility"
    /\ cur["main"][3] = PyBool(TRUE)
    /\ TaskIdOf(cur["main"]) = 2
    /\ \E k \in 1..Len(published) :
          published[k].name = "threaded" /\ published[k].id = 1

\* C27: a call of notify whose refresh raises changes neither the queue nor
\* the store, invokes no handler and publishes nothing, and notify is not in
\* its loop afterwards; until the next call of notify nothing is dispatched
\* or published and no task leaves the queue unless stop() clears it.
C27_FailedTickTouchesNothing ==
    /\ [](\A c \in Contexts :
             dpc[c] \in Draining => tickLog.last = "entered")
    /\ [][(events' < events /\ tickLog'.last = "raised") =>
             /\ task_queue' = task_queue
             /\ response_dict' = response_dict
             /\ dispatched' = dispatched
             /\ published' = published
             /\ \A c \in Contexts : dpc'[c] \notin Draining]_vars
    /\ [][(tickLog.last = "raised" /\ tickLog'.last = "raised") =>
             /\ dispatched' = dispatched
             /\ published' = published
             /\ \/ QueuedIds(task_queue) \subseteq QueuedIds(task_queue')
                \/ StopStep]_vars

\* C27 witness: a task that was queued when a refresh raised is being
\* dispatched by a later tick.
C27_Witness ==
    /\ dpc["main"] = "handler"
    /\ AppendedId(cur["main"]) \in tickLog.left

\* C28: at most one request is in service at any time: a connection made
\* while a request is served stays in the backlog until the reply of that
\* request was sent, so at most one thread waits in get_task_response, at
\* most one executes generate_task_id, and the ids handed out are distinct
\* and in the order of the requests.
C28_OneRequestAtATime ==
    /\ Cardinality({t \in Callers : gpc[t] \notin {"idle", "backlog"}}) <= 1
    /\ Cardinality({t \in Callers : gpc[t] = "await"}) <= 1
    /\ Cardinality({t \in Callers : gpc[t] \in {"load", "store", "ret"}}) <= 1
    /\ \A i \in 1..Len(calls) : calls[i] = i

\* C28 witness: a second connection waits in the backlog while the thread of
\* the first request is in get_task_response, after an earlier request was
\* answered.
C28_Witness ==
    /\ \E t, u \in Callers : gpc[t] = "await" /\ gpc[u] = "backlog"
    /\ Len(calls) >= 2

\* C29: once stop() has returned the queue is empty.
C29_EmptyAfterStop ==
    dpc["main"] = "stopped" => task_queue = <<>>

\* C30 as stated: once the ticker thread has exited without the stop flag
\* set, no call of notify enters its loop.
C30_NoTickAfterExit ==
    [][(tpc = "done" /\ ~stopFlag) =>
          \A c \in Contexts :
              dpc[c] \notin Draining => dpc'[c] \notin Draining]_vars

\* the ticker thread has exited without the stop flag set, every event it
\* fired has been delivered and no call of notify is in progress
TickerDead ==
    /\ tpc = "done"
    /\ ~stopFlag
    /\ events = 0
    /\ \A c \in Contexts : dpc[c] \notin Draining

\* C30 amended: a fireCustomEvent that raises ends the ticker thread, which
\* never runs again and fires nothing more; once the events fired before
\* are delivered, no tick occurs, nothing is dispatched or published, the
\* queue only grows until stop() clears it, and a request that returns with
\* its task still queued returns the timeout dict.
C30_DeadAfterPending ==
    /\ [][(tpc = "fire" /\ tpc' # "fire" /\ events' = events) =>
             tpc' = "done"]_vars
    /\ [][tpc = "done" => (tpc' = "done" /\ events' <= events)]_vars
    /\ [][TickerDead =>
             /\ events' = 0
             /\ \A c \in Contexts : dpc'[c] \notin Draining
             /\ dispatched' = dispatched
             /\ published' = published
             /\ \/ QueuedIds(task_queue) \subseteq QueuedIds(task_queue')
                \/ StopStep]_vars
    /\ []((fpc = "respond" /\ task_id \in QueuedIds(task_queue)) =>
             response = TimeoutResponse)

\* C30 witness: with the ticker dead and the stop flag not set, a request
\* made after an earlier task was dispatched gets the timeout dict while its
\* task is still in the queue.
C30_Witness ==
    /\ TickerDead
    /\ Len(dispatched) >= 1
    /\ fpc = "respond"
    /\ response = TimeoutResponse
    /\ task_id \in QueuedIds(task_queue)

====
